---- MODULE Spec2Model ----
(***************************************************************************)
(* A model of async-select's `select!`.                                    *)
(*                                                                         *)
(* The repository holds two implementations of the same combinator:       *)
(*   "rules" - the macro_rules `select_internal!(@poll ...)` of            *)
(*             src/src/lib.rs, which tracks completion with a u64 bitmask  *)
(*             and always starts a sweep at an address-derived index;      *)
(*   "proc"  - the procedural macro `select_internal` of                   *)
(*             src/macros/src/lib.rs, which tracks an `any_pending` flag   *)
(*             and has a biased variant that sweeps from index 0.          *)
(* One invocation is modelled from the evaluation of the conditions to the *)
(* handler (or the panic) that ends it.  The branch operations are the     *)
(* environment: an operation that is pending may become ready with a value *)
(* or start to panic on poll at any moment.                                *)
(***************************************************************************)
EXTENDS Integers, Sequences, FiniteSets, TLC

\* ------------------------------------------------------------------ bounds
MaxBranches == 3
MaxValue == 1
MaxSweeps == 2
MaxAddr == 3
MaxClauses == 4

\* ------------------------------------------------------- program constants
\* width of the completion mask (`const COMPLETED: u64`)
MaskBits == 64

\* the largest number of branches the macros expand
MaxArity == 64

VARIABLES
    impl,            \* "rules" | "proc": which macro expanded the select
    biased,          \* proc only: select_biased (TRUE) or select_default
    BRANCHES,        \* const BRANCHES: number of declared branches
    hasDefault,      \* a `default` clause is declared
    hasComplete,     \* a `complete` clause is declared
    condition,       \* condition[b]: value the branch's `if` evaluates to
    place,           \* proc: (&__select_futures as usize) >> 3
    pc,              \* position of the expansion
    built,           \* number of branches whose slot has been constructed
    futures,         \* __select_futures: slot b is "None" or "Some"
    op,              \* state of branch b's operation (the future itself)
    opVal,           \* value a ready operation will return
    start,           \* sweep-local `start`
    i,               \* sweep-local loop variable
    any_pending,     \* proc: sweep-local flag
    completions,     \* rules: sweep-local bitmask, as its set of 1 bits
    polled,          \* what the current sweep did with each branch
    output,          \* what the last poll of the poll_fn returned
    handled,         \* handlers that ran, in order
    panicked,        \* "no" or the panic that ended the invocation
    sweeps,          \* polls of the poll_fn so far
    polls,           \* polls[b]: Future::poll calls on operation b
    evals,           \* evals[b]: evaluations of branch b's condition
    constructs,      \* constructs[b]: evaluations of branch b's future expr
    source,          \* the clauses of the macro input, in order, by kind
    pos,             \* the clause the parser is at (1-based)
    diag,            \* "none" or the compile error the input was rejected with
    woken            \* the branches whose operation became ready, in order

cfgVars == <<impl, biased, BRANCHES, hasDefault, hasComplete, condition, place,
             source, pos, diag, woken>>
sweepVars == <<start, i, any_pending, completions, polled>>
countVars == <<sweeps, polls, evals, constructs>>
vars == <<impl, biased, BRANCHES, hasDefault, hasComplete, condition, place,
          pc, built, futures, op, opVal, start, i, any_pending, completions,
          polled, output, handled, panicked, sweeps, polls, evals, constructs,
          source, pos, diag, woken>>

Branches == 0 .. (BRANCHES - 1)
Values == 0 .. MaxValue

\* --------------------------------------------------------------- helpers

\* `match &output { $capture => {}, _ => continue }`: the branch pattern is
\* the refutable pattern of the tests, `Some(v)`; value 0 stands for `None`.
Matches(v) == v # 0

Constructs_Always(b) == TRUE

\* `if $condition { ... }` / `if #condition { Some(#future) } else { None }`:
\* whether the future expression of branch b is evaluated.
Constructs(b) == condition[b]

SlotAfterReady_OnReject(v) == IF Matches(v) THEN "Some" ELSE "None"

SlotAfterReady_OnMatch(v) == IF Matches(v) THEN "None" ELSE "Some"

\* The value the slot of a branch gets once its poll returned Ready(v):
\* `__select_futures.N = None`, before the pattern is looked at.
SlotAfterReady(v) == "None"

Shl1_OffByOne(n) == {(n + 1) % MaskBits}

\* `1 << n` on u64, as the set of its 1 bits.  A shift by the width or more
\* is an overflow: the shift amount is masked to the width, as in a build
\* without overflow checks.
Shl1(n) == {n % MaskBits}

\* u64::MAX
U64Max == 0 .. (MaskBits - 1)

\* `x - 1` on u64 (wrapping), on sets of 1 bits: the lowest 1 bit borrows.
Dec(x) ==
    IF x = {} THEN U64Max
    ELSE LET low == CHOOSE k \in x : \A j \in x : k <= j
         IN (x \ {low}) \cup {k \in 0 .. (MaskBits - 1) : k < low}

COMPLETED_Zero == {}

COMPLETED_OffByOne == {k \in 0 .. (MaskBits - 1) : k < BRANCHES - 1}

COMPLETED_NoSpecialCase == Dec(Shl1(BRANCHES))

\* const COMPLETED: u64 =
\*     if BRANCHES == 64 { u64::MAX } else { (1u64 << BRANCHES) - 1 }
COMPLETED == IF BRANCHES = 64 THEN U64Max ELSE Dec(Shl1(BRANCHES))

non_blocking_Always == TRUE

non_blocking_DefaultOnly == hasDefault /\ ~hasComplete

\* $non_blocking of the four @list terminal rules.
non_blocking == hasDefault

\* $when_completed of the four @list terminal rules.
when_completed_Never == FALSE

when_completed == hasComplete

TracksPending_CompleteOnly == hasComplete

\* proc: whether `any_pending` is declared, assigned and checked.
TracksPending == hasComplete \/ ~hasDefault

BranchAt_Unreduced(k) ==
    IF impl = "proc" /\ biased THEN k ELSE start + k

BranchAt_ByArrival(k) ==
    LET rest == {b \in Branches : \A n \in 1 .. Len(woken) : woken[n] # b}
        RECURSIVE Sorted(_)
        Sorted(S) == IF S = {} THEN <<>>
                     ELSE LET m == CHOOSE x \in S : \A y \in S : x <= y
                          IN <<m>> \o Sorted(S \ {m})
    IN (woken \o Sorted(rest))[k + 1]

BranchAt_Stutter(k) ==
    IF k = 0 THEN (IF impl = "proc" /\ biased THEN 0 ELSE start % BRANCHES)
    ELSE IF impl = "proc" /\ biased THEN k - 1
    ELSE (start + k - 1) % BRANCHES

BranchAt_Clamped(k) ==
    IF impl = "proc" /\ biased THEN k
    ELSE IF start + k < BRANCHES THEN start + k ELSE BRANCHES - 1

BranchAt_Reversed(k) == BRANCHES - 1 - k

BranchAt_NoStep(k) ==
    IF impl = "proc" /\ biased THEN 0 ELSE start % BRANCHES

BranchAt_Rotated(k) == (start + k + 1) % BRANCHES

\* The branch visited at loop index k.
BranchAt(k) ==
    IF impl = "proc" /\ biased THEN k ELSE (start + k) % BRANCHES

MatchExit_Continue == "sweep"

\* Where control goes when the polled value matches the pattern:
\* `return Poll::Ready(...)` leaves the closure.
MatchExit == "returned"

PanicExit_Swallowed == "sweep"

\* Where control goes when Future::poll panics: nothing catches the unwind.
PanicExit == "panicked"

NoOutput == [tag |-> "None", idx |-> 0, val |-> 0]
PendingOut == [tag |-> "Pending", idx |-> 0, val |-> 0]
CompletedOut == [tag |-> "Completed", idx |-> 0, val |-> 0]
WouldBlockOut == [tag |-> "WouldBlock", idx |-> 0, val |-> 0]
BranchOut_Neighbour(b, v) ==
    [tag |-> "Branch", idx |-> (b + 1) % BRANCHES, val |-> v]

BranchOut(b, v) == [tag |-> "Branch", idx |-> b, val |-> v]

Terminal_BranchOnly(o) == o.tag = "Branch"

Terminal(o) == o.tag \in {"Completed", "WouldBlock", "Branch"}

\* ------------------------------------------------------------ macro input
\* A clause of the input is a branch (`pat = future [, if cond] => body`),
\* a `default => body` or a `complete => body`.
Kinds == {"branch", "default", "complete"}

Count(clauses, kind) ==
    Cardinality({k \in 1 .. Len(clauses) : clauses[k] = kind})

\* An input that declares n branches, then the special clauses given.
Canonical(n, d, c) ==
    [k \in 1 .. n |-> "branch"]
        \o (IF d THEN <<"default">> ELSE <<>>)
        \o (IF c THEN <<"complete">> ELSE <<>>)

Duplicate_DefaultOnly(kind) == kind = "default" /\ hasDefault

\* The clause is a second `default` or a second `complete`:
\* `if select.default_clause.is_some()`, `if select.complete_clause.is_some()`
\* (proc); a `default =>` head with `($default:tt)` already filled, a
\* `complete =>` head with `($complete:tt)` already filled (rules).
Duplicate(kind) ==
    \/ kind = "default" /\ hasDefault
    \/ kind = "complete" /\ hasComplete

\* The error for an input without a branch, by the special clauses it has
\* (the text of the compile_error!, without its quoting).
NoBranch ==
    IF hasDefault /\ hasComplete THEN "no branch except default and complete"
    ELSE IF hasDefault THEN "no branch except default"
    ELSE IF hasComplete THEN "no branch except complete"
    ELSE "no branch"

\* An accepted input, parsed: the invocation is about to build its table.
Init ==
    /\ impl \in {"rules", "proc"}
    /\ biased \in BOOLEAN
    /\ impl = "rules" => ~biased
    /\ BRANCHES \in 1 .. MaxBranches
    /\ hasDefault \in BOOLEAN
    /\ hasComplete \in BOOLEAN
    /\ condition \in [0 .. (BRANCHES - 1) -> BOOLEAN]
    /\ place \in 0 .. MaxAddr
    /\ (impl = "rules" \/ biased) => place = 0
    /\ pc = "build"
    /\ built = 0
    /\ futures = [b \in 0 .. (BRANCHES - 1) |-> "None"]
    /\ op = [b \in 0 .. (BRANCHES - 1) |-> "unbuilt"]
    /\ opVal = [b \in 0 .. (BRANCHES - 1) |-> 0]
    /\ start = 0
    /\ i = 0
    /\ any_pending = FALSE
    /\ completions = {}
    /\ polled = [b \in 0 .. (BRANCHES - 1) |-> "no"]
    /\ output = NoOutput
    /\ handled = <<>>
    /\ panicked = "no"
    /\ sweeps = 0
    /\ polls = [b \in 0 .. (BRANCHES - 1) |-> 0]
    /\ evals = [b \in 0 .. (BRANCHES - 1) |-> 0]
    /\ constructs = [b \in 0 .. (BRANCHES - 1) |-> 0]
    /\ source = Canonical(BRANCHES, hasDefault, hasComplete)
    /\ pos = Len(source) + 1
    /\ diag = "none"
    /\ woken = <<>>

\* ------------------------------------------------- branch table construction
\* One branch of the table: `if $condition { slot = Some($future) }` (rules)
\* or `if #condition { Some(#future) } else { None }` (proc).
Build ==
    /\ pc = "build"
    /\ built < BRANCHES
    /\ evals' = [evals EXCEPT ![built] = @ + 1]
    /\ IF Constructs(built)
       THEN /\ futures' = [futures EXCEPT ![built] = "Some"]
            /\ op' = [op EXCEPT ![built] = "pending"]
            /\ constructs' = [constructs EXCEPT ![built] = @ + 1]
       ELSE UNCHANGED <<futures, op, constructs>>
    /\ built' = built + 1
    /\ UNCHANGED <<cfgVars, sweepVars, pc, opVal, output, handled, panicked,
                   sweeps, polls>>

Await_Early ==
    /\ pc = "build"
    /\ built >= 1
    /\ pc' = "idle"
    /\ UNCHANGED <<cfgVars, sweepVars, countVars, built, futures, op, opVal,
                   output, handled, panicked>>

\* The table is complete: the poll_fn future is created and awaited.
Await ==
    /\ pc = "build"
    /\ built = BRANCHES
    /\ pc' = "idle"
    /\ UNCHANGED <<cfgVars, sweepVars, countVars, built, futures, op, opVal,
                   output, handled, panicked>>

\* ------------------------------------------------------------ environment
\* A pending operation becomes ready with value v.
Wake(b, v) ==
    /\ pc \in {"idle", "sweep"}
    /\ op[b] = "pending"
    /\ op' = [op EXCEPT ![b] = "ready"]
    /\ opVal' = [opVal EXCEPT ![b] = v]
    /\ UNCHANGED <<cfgVars, sweepVars, countVars, pc, built, futures, output,
                   handled, panicked>>

\* A pending operation reaches a state in which its next poll panics.
Poison(b) ==
    /\ pc \in {"idle", "sweep"}
    /\ op[b] = "pending"
    /\ op' = [op EXCEPT ![b] = "panics"]
    /\ UNCHANGED <<cfgVars, sweepVars, countVars, pc, built, futures, opVal,
                   output, handled, panicked>>

\* ------------------------------------------------------------- poll loop
StartIndex_Zero(addr) == 0

\* `start`, from the address a the expansion takes (already shifted by 3):
\* rules `((&stack_addr as *const usize as usize) >> 3) % BRANCHES`,
\* proc `(&__select_futures as *const _ as usize) >> 3`.
StartIndex(addr) == IF impl = "rules" THEN addr % BRANCHES ELSE addr

StartSweep_Refill(addr) ==
    /\ pc = "idle"
    /\ sweeps < MaxSweeps
    /\ start' = IF impl = "proc" /\ biased THEN 0
                ELSE StartIndex(IF impl = "rules" THEN addr ELSE place)
    /\ i' = 0
    /\ any_pending' = FALSE
    /\ completions' = {}
    /\ polled' = [b \in Branches |-> "no"]
    /\ sweeps' = sweeps + 1
    /\ futures' = [b \in Branches |->
                     IF op[b] = "done" THEN "Some" ELSE futures[b]]
    /\ op' = [b \in Branches |-> IF op[b] = "done" THEN "pending" ELSE op[b]]
    /\ pc' = "sweep"
    /\ UNCHANGED <<cfgVars, built, opVal, output, handled,
                   panicked, polls, evals, constructs>>

StartSweep_KeepFlag(addr) ==
    /\ pc = "idle"
    /\ sweeps < MaxSweeps
    /\ start' = IF impl = "proc" /\ biased THEN 0
                ELSE StartIndex(IF impl = "rules" THEN addr ELSE place)
    /\ i' = 0
    /\ completions' = {}
    /\ polled' = [b \in Branches |-> "no"]
    /\ sweeps' = sweeps + 1
    /\ pc' = "sweep"
    /\ UNCHANGED <<cfgVars, built, futures, op, opVal, output, handled,
                   panicked, polls, evals, constructs, any_pending>>

StartSweep_ReEval(addr) ==
    /\ pc = "idle"
    /\ sweeps < MaxSweeps
    /\ start' = IF impl = "proc" /\ biased THEN 0
                ELSE StartIndex(IF impl = "rules" THEN addr ELSE place)
    /\ i' = 0
    /\ any_pending' = FALSE
    /\ completions' = {}
    /\ polled' = [b \in Branches |-> "no"]
    /\ sweeps' = sweeps + 1
    /\ evals' = [b \in Branches |-> evals[b] + 1]
    /\ pc' = "sweep"
    /\ UNCHANGED <<cfgVars, built, futures, op, opVal, output, handled,
                   panicked, polls, constructs>>

\* The executor polls the poll_fn: the closure starts a new sweep.
StartSweep(addr) ==
    /\ pc = "idle"
    /\ sweeps < MaxSweeps
    /\ start' = IF impl = "proc" /\ biased THEN 0
                ELSE StartIndex(IF impl = "rules" THEN addr ELSE place)
    /\ i' = 0
    /\ any_pending' = FALSE
    /\ completions' = {}
    /\ polled' = [b \in Branches |-> "no"]
    /\ sweeps' = sweeps + 1
    /\ pc' = "sweep"
    /\ UNCHANGED <<cfgVars, built, futures, op, opVal, output, handled,
                   panicked, polls, evals, constructs>>

Visit_RejectStaysPending ==
    /\ pc = "sweep"
    /\ i < BRANCHES
    /\ LET branch == BranchAt(i) IN
       IF futures[branch] = "None"
       THEN \* `let Some(future) = ... else { continue }`
            /\ completions' = IF impl = "rules"
                              THEN completions \cup Shl1(branch)
                              ELSE completions
            /\ polled' = [polled EXCEPT ![branch] = "empty"]
            /\ i' = i + 1
            /\ UNCHANGED <<pc, futures, op, opVal, any_pending, output,
                           panicked, polls>>
       ELSE
            /\ polls' = [polls EXCEPT ![branch] = @ + 1]
            /\ CASE op[branch] = "ready" ->
                    \* Poll::Ready(output): the slot is emptied first
                    /\ futures' = [futures EXCEPT
                                       ![branch] = SlotAfterReady(opVal[branch])]
                    /\ op' = [op EXCEPT ![branch] = "done"]
                    /\ opVal' = [opVal EXCEPT ![branch] = 0]
                    /\ completions' = IF impl = "rules" /\ Matches(opVal[branch])
                                      THEN completions \cup Shl1(branch)
                                      ELSE completions
                    /\ IF Matches(opVal[branch])
                       THEN /\ polled' = [polled EXCEPT ![branch] = "match"]
                            /\ output' = BranchOut(branch, opVal[branch])
                            /\ pc' = MatchExit
                            /\ i' = i
                       ELSE /\ polled' = [polled EXCEPT ![branch] = "reject"]
                            /\ i' = i + 1
                            /\ UNCHANGED <<pc, output>>
                    /\ any_pending' = (any_pending \/ ~Matches(opVal[branch]))
                    /\ UNCHANGED panicked
                 [] op[branch] = "panics" ->
                    \* the panic unwinds through the poll_fn and the select
                    /\ polled' = [polled EXCEPT ![branch] = "panic"]
                    /\ panicked' = "poll"
                    /\ pc' = PanicExit
                    /\ futures' = [b \in Branches |-> "None"]
                    /\ op' = [b \in Branches |->
                                IF op[b] \in {"unbuilt", "done"} THEN op[b]
                                ELSE "dropped"]
                    /\ opVal' = [b \in Branches |-> 0]
                    /\ UNCHANGED <<i, any_pending, completions, output>>
                 [] OTHER ->
                    \* Poll::Pending
                    /\ any_pending' = IF impl = "proc" /\ TracksPending
                                      THEN TRUE ELSE any_pending
                    /\ polled' = [polled EXCEPT ![branch] = "pending"]
                    /\ i' = i + 1
                    /\ UNCHANGED <<pc, futures, op, opVal, completions,
                                   output, panicked>>
    /\ UNCHANGED <<cfgVars, built, start, handled, sweeps, evals, constructs>>

\* One iteration of `for i in 0..BRANCHES`.
Visit ==
    /\ pc = "sweep"
    /\ i < BRANCHES
    /\ LET branch == BranchAt(i) IN
       IF branch \notin Branches
       THEN \* `_ => unreachable!(...)`: no arm of `match branch` applies
            /\ panicked' = "select! encounter mismatch branch in polling"
            /\ pc' = PanicExit
            /\ futures' = [b \in Branches |-> "None"]
            /\ op' = [b \in Branches |->
                        IF op[b] \in {"unbuilt", "done"} THEN op[b]
                        ELSE "dropped"]
            /\ opVal' = [b \in Branches |-> 0]
            /\ UNCHANGED <<i, any_pending, completions, output, polled,
                           polls>>
       ELSE
       IF futures[branch] = "None"
       THEN \* `let Some(future) = ... else { continue }`
            /\ completions' = IF impl = "rules"
                              THEN completions \cup Shl1(branch)
                              ELSE completions
            /\ polled' = [polled EXCEPT ![branch] = "empty"]
            /\ i' = i + 1
            /\ UNCHANGED <<pc, futures, op, opVal, any_pending, output,
                           panicked, polls>>
       ELSE
            /\ polls' = [polls EXCEPT ![branch] = @ + 1]
            /\ CASE op[branch] = "ready" ->
                    \* Poll::Ready(output): the slot is emptied first
                    /\ futures' = [futures EXCEPT
                                       ![branch] = SlotAfterReady(opVal[branch])]
                    /\ op' = [op EXCEPT ![branch] = "done"]
                    /\ opVal' = [opVal EXCEPT ![branch] = 0]
                    /\ completions' = IF impl = "rules"
                                      THEN completions \cup Shl1(branch)
                                      ELSE completions
                    /\ IF Matches(opVal[branch])
                       THEN /\ polled' = [polled EXCEPT ![branch] = "match"]
                            /\ output' = BranchOut(branch, opVal[branch])
                            /\ pc' = MatchExit
                            /\ i' = i
                       ELSE /\ polled' = [polled EXCEPT ![branch] = "reject"]
                            /\ i' = i + 1
                            /\ UNCHANGED <<pc, output>>
                    /\ UNCHANGED <<any_pending, panicked>>
                 [] op[branch] = "panics" ->
                    \* the panic unwinds through the poll_fn and the select
                    /\ polled' = [polled EXCEPT ![branch] = "panic"]
                    /\ panicked' = "poll"
                    /\ pc' = PanicExit
                    /\ futures' = [b \in Branches |-> "None"]
                    /\ op' = [b \in Branches |->
                                IF op[b] \in {"unbuilt", "done"} THEN op[b]
                                ELSE "dropped"]
                    /\ opVal' = [b \in Branches |-> 0]
                    /\ UNCHANGED <<i, any_pending, completions, output>>
                 [] OTHER ->
                    \* Poll::Pending
                    /\ any_pending' = IF impl = "proc" /\ TracksPending
                                      THEN TRUE ELSE any_pending
                    /\ polled' = [polled EXCEPT ![branch] = "pending"]
                    /\ i' = i + 1
                    /\ UNCHANGED <<pc, futures, op, opVal, completions,
                                   output, panicked>>
    /\ UNCHANGED <<cfgVars, built, start, handled, sweeps, evals, constructs>>

RulesDecision_NoMask ==
    IF when_completed \/ ~non_blocking
    THEN CompletedOut
    ELSE IF non_blocking THEN WouldBlockOut ELSE PendingOut

RulesDecision_NoMode ==
    IF completions = COMPLETED
    THEN CompletedOut
    ELSE IF non_blocking THEN WouldBlockOut ELSE PendingOut

\* rules: the decision after the loop.
RulesDecision ==
    IF completions = COMPLETED /\ (when_completed \/ ~non_blocking)
    THEN CompletedOut
    ELSE IF non_blocking THEN WouldBlockOut ELSE PendingOut

ProcDecision_NoPendingCheck ==
    IF hasDefault THEN WouldBlockOut ELSE PendingOut

ProcDecision_DefaultFirst ==
    IF hasDefault THEN WouldBlockOut
    ELSE IF TracksPending /\ ~any_pending THEN CompletedOut ELSE PendingOut

\* proc: #pending_check then #default_clause.
ProcDecision ==
    IF TracksPending /\ ~any_pending
    THEN CompletedOut
    ELSE IF hasDefault THEN WouldBlockOut ELSE PendingOut

EndSweep_AlwaysIdle ==
    /\ pc = "sweep"
    /\ i = BRANCHES
    /\ output' = IF impl = "rules" THEN RulesDecision ELSE ProcDecision
    /\ pc' = "idle"
    /\ UNCHANGED <<cfgVars, sweepVars, countVars, built, futures, op, opVal,
                   handled, panicked>>

\* The loop ran to its end without a match.
EndSweep ==
    /\ pc = "sweep"
    /\ i = BRANCHES
    /\ output' = IF impl = "rules" THEN RulesDecision ELSE ProcDecision
    /\ pc' = IF Terminal(output') THEN "returned" ELSE "idle"
    /\ UNCHANGED <<cfgVars, sweepVars, countVars, built, futures, op, opVal,
                   handled, panicked>>

ScopeEnd_KeepTable ==
    /\ pc = "returned"
    /\ pc' = "dispatch"
    /\ UNCHANGED <<cfgVars, sweepVars, countVars, built, futures, op, opVal,
                   output, handled, panicked>>

\* The block `let mut output = { ... }` ends: __select_futures is dropped.
ScopeEnd ==
    /\ pc = "returned"
    /\ futures' = [b \in Branches |-> "None"]
    /\ op' = [b \in Branches |->
                IF op[b] \in {"unbuilt", "done"} THEN op[b] ELSE "dropped"]
    /\ opVal' = [b \in Branches |-> 0]
    /\ pc' = "dispatch"
    /\ UNCHANGED <<cfgVars, sweepVars, countVars, built, output, handled,
                   panicked>>

\* ------------------------------------------------------------ dispatcher
DefaultRun == [kind |-> "default", idx |-> 0, val |-> 0]
CompleteRun == [kind |-> "complete", idx |-> 0, val |-> 0]
BranchRun(b, v) == [kind |-> "branch", idx |-> b, val |-> v]

\* #default_handler / `default = ...`: the clause, or the placeholder.
DefaultArm ==
    IF hasDefault THEN [run |-> <<DefaultRun>>, panic |-> "no"]
    ELSE [run |-> <<>>, panic |-> "not in unblocking mode"]

\* #complete_handler / `complete = ...`: the clause, or the panic.
CompleteArm ==
    IF hasComplete THEN [run |-> <<CompleteRun>>, panic |-> "no"]
    ELSE [run |-> <<>>, panic |-> "all branches are disabled or completed"]

Arm_BranchLost(o) ==
    CASE o.tag = "WouldBlock" -> DefaultArm
      [] o.tag = "Completed" -> CompleteArm
      [] OTHER -> [run |-> <<>>, panic |-> "select! fail to pattern match"]

Arm_Swapped(o) ==
    CASE o.tag = "Branch" ->
            [run |-> <<BranchRun(o.idx, o.val)>>, panic |-> "no"]
      [] o.tag = "WouldBlock" -> CompleteArm
      [] o.tag = "Completed" -> DefaultArm
      [] OTHER -> [run |-> <<>>, panic |-> "select! fail to pattern match"]

\* The arm of `match output { ... }` that o selects: a branch arm applies
\* when the payload matches the branch's binding pattern.
Arm(o) ==
    CASE o.tag = "Branch" /\ Matches(o.val) ->
            [run |-> <<BranchRun(o.idx, o.val)>>, panic |-> "no"]
      [] o.tag = "WouldBlock" -> DefaultArm
      [] o.tag = "Completed" -> CompleteArm
      [] OTHER -> [run |-> <<>>, panic |-> "select! fail to pattern match"]

\* `match output { ... }`: the selected arm is evaluated.
Dispatch ==
    /\ pc = "dispatch"
    /\ LET arm == Arm(output) IN
          /\ handled' = handled \o arm.run
          /\ panicked' = arm.panic
          /\ pc' = IF arm.panic = "no" THEN "done" ELSE "panicked"
    /\ UNCHANGED <<cfgVars, sweepVars, countVars, built, futures, op, opVal,
                   output>>

Next ==
    \/ Build
    \/ Await
    \/ \E b \in Branches, v \in Values : Wake(b, v)
    \/ \E b \in Branches : Poison(b)
    \/ \E addr \in 0 .. MaxAddr : StartSweep(addr)
    \/ Visit
    \/ EndSweep
    \/ ScopeEnd
    \/ Dispatch

Spec == Init /\ [][Next]_vars

\* ------------------------------------------------- every arity up to 64
\* The rules expansion for every branch count the macro accepts.  The table
\* is all disabled, or has one enabled branch, the first or the last.
InitMask ==
    /\ impl = "rules"
    /\ biased = FALSE
    /\ BRANCHES \in 1 .. MaxArity
    /\ hasDefault \in BOOLEAN
    /\ hasComplete = TRUE
    /\ condition \in {[b \in 0 .. (BRANCHES - 1) |-> FALSE],
                      [b \in 0 .. (BRANCHES - 1) |-> b = 0],
                      [b \in 0 .. (BRANCHES - 1) |-> b = BRANCHES - 1]}
    /\ place = 0
    /\ pc = "build"
    /\ built = 0
    /\ futures = [b \in 0 .. (BRANCHES - 1) |-> "None"]
    /\ op = [b \in 0 .. (BRANCHES - 1) |-> "unbuilt"]
    /\ opVal = [b \in 0 .. (BRANCHES - 1) |-> 0]
    /\ start = 0
    /\ i = 0
    /\ any_pending = FALSE
    /\ completions = {}
    /\ polled = [b \in 0 .. (BRANCHES - 1) |-> "no"]
    /\ output = NoOutput
    /\ handled = <<>>
    /\ panicked = "no"
    /\ sweeps = 0
    /\ polls = [b \in 0 .. (BRANCHES - 1) |-> 0]
    /\ evals = [b \in 0 .. (BRANCHES - 1) |-> 0]
    /\ constructs = [b \in 0 .. (BRANCHES - 1) |-> 0]
    /\ source = Canonical(BRANCHES, hasDefault, hasComplete)
    /\ pos = Len(source) + 1
    /\ diag = "none"
    /\ woken = <<>>

NextMask ==
    \/ Build
    \/ Await
    \/ \E b \in Branches, v \in Values : Wake(b, v)
    \/ \E addr \in {0, MaxAddr} : StartSweep(addr)
    \/ Visit
    \/ EndSweep
    \/ ScopeEnd
    \/ Dispatch

SpecMask == InitMask /\ [][NextMask]_vars

\* --------------------------------------------------------------- parsing
\* The macro input before it is parsed (the placement of commas and the
\* 64-branch limit of the rules are not modelled).
InitParse ==
    /\ impl \in {"rules", "proc"}
    /\ biased = FALSE
    /\ source \in {cl \in UNION {[1 .. n -> Kinds] : n \in 0 .. MaxClauses} :
                       Count(cl, "branch") <= MaxBranches}
    /\ pos = 1
    /\ diag = "none"
    /\ woken = <<>>
    /\ BRANCHES = 0
    /\ hasDefault = FALSE
    /\ hasComplete = FALSE
    /\ condition = <<>>
    /\ place = 0
    /\ pc = "parse"
    /\ built = 0
    /\ futures = <<>>
    /\ op = <<>>
    /\ opVal = <<>>
    /\ start = 0
    /\ i = 0
    /\ any_pending = FALSE
    /\ completions = {}
    /\ polled = <<>>
    /\ output = NoOutput
    /\ handled = <<>>
    /\ panicked = "no"
    /\ sweeps = 0
    /\ polls = <<>>
    /\ evals = <<>>
    /\ constructs = <<>>

\* One turn of `while !input.is_empty()` (proc), one `@list` rule with a
\* clause at the head of the tokens (rules).
ParseClause ==
    /\ pc = "parse"
    /\ pos <= Len(source)
    /\ LET kind == source[pos] IN
       IF Duplicate(kind)
       THEN /\ diag' = "more than one " \o kind \o " clauses"
            /\ pc' = "rejected"
            /\ UNCHANGED <<BRANCHES, hasDefault, hasComplete, pos>>
       ELSE /\ BRANCHES' = IF kind = "branch" THEN BRANCHES + 1 ELSE BRANCHES
            /\ hasDefault' = (hasDefault \/ kind = "default")
            /\ hasComplete' = (hasComplete \/ kind = "complete")
            /\ pos' = pos + 1
            /\ UNCHANGED <<diag, pc>>
    /\ UNCHANGED <<impl, biased, condition, place, source, woken, sweepVars,
                   countVars, built, futures, op, opVal, output, handled,
                   panicked>>

\* The input is exhausted: without a branch it is an error, otherwise the
\* expansion is emitted and runs (`condition` is what the `if`s will give).
ParseEnd ==
    /\ pc = "parse"
    /\ pos > Len(source)
    /\ IF BRANCHES = 0
       THEN /\ diag' = NoBranch
            /\ pc' = "rejected"
            /\ UNCHANGED <<condition, futures, op, opVal, polled, polls,
                           evals, constructs>>
       ELSE /\ pc' = "build"
            /\ condition' \in [Branches -> BOOLEAN]
            /\ futures' = [b \in Branches |-> "None"]
            /\ op' = [b \in Branches |-> "unbuilt"]
            /\ opVal' = [b \in Branches |-> 0]
            /\ polled' = [b \in Branches |-> "no"]
            /\ polls' = [b \in Branches |-> 0]
            /\ evals' = [b \in Branches |-> 0]
            /\ constructs' = [b \in Branches |-> 0]
            /\ UNCHANGED diag
    /\ UNCHANGED <<impl, biased, BRANCHES, hasDefault, hasComplete, place,
                   source, pos, woken, start, i, any_pending, completions, sweeps,
                   built, output, handled, panicked>>

NextParse ==
    \/ ParseClause
    \/ ParseEnd
    \/ Build
    \/ Await
    \/ \E b \in Branches, v \in Values : Wake(b, v)
    \/ StartSweep(0)
    \/ Visit
    \/ EndSweep
    \/ ScopeEnd
    \/ Dispatch

SpecParse == InitParse /\ [][NextParse]_vars

\* ----------------------------------------------- order of becoming ready
\* Wake, with the order in which the operations became ready kept.
Arrive(b, v) ==
    /\ pc \in {"idle", "sweep"}
    /\ op[b] = "pending"
    /\ op' = [op EXCEPT ![b] = "ready"]
    /\ opVal' = [opVal EXCEPT ![b] = v]
    /\ woken' = Append(woken, b)
    /\ UNCHANGED <<impl, biased, BRANCHES, hasDefault, hasComplete, condition,
                   place, source, pos, diag, sweepVars, countVars, pc, built,
                   futures, output, handled, panicked>>

NextOrder ==
    \/ Build
    \/ Await
    \/ \E b \in Branches, v \in Values : Arrive(b, v)
    \/ \E addr \in 0 .. MaxAddr : StartSweep(addr)
    \/ Visit
    \/ EndSweep
    \/ ScopeEnd
    \/ Dispatch

SpecOrder == Init /\ [][NextOrder]_vars

TypeOK ==
    /\ pc \in {"build", "idle", "sweep", "returned", "dispatch", "done",
               "panicked"}
    /\ futures \in [Branches -> {"None", "Some"}]
    /\ op \in [Branches -> {"unbuilt", "pending", "ready", "panics", "done",
                            "dropped"}]
    /\ polled \in [Branches -> {"no", "empty", "pending", "reject", "match",
                                "panic"}]
    /\ i \in 0 .. BRANCHES
    /\ completions \subseteq 0 .. (MaskBits - 1)

\* ------------------------------------------------- vocabulary of the claims
\* The last sweep visited every branch and found no matching value.
FullSweepNoMatch ==
    \A b \in Branches : polled[b] \in {"empty", "pending", "reject"}

\* ... and every branch was disabled, already resolved, or rejected in it.
SweepAllCompleted ==
    \A b \in Branches : polled[b] \in {"empty", "reject"}

\* ... and at least one operation reported Poll::Pending in it.
SweepSomePending ==
    /\ FullSweepNoMatch
    /\ \E b \in Branches : polled[b] = "pending"

\* The poll_fn has returned from the last sweep (the loop is not running).
SweepOver == pc \in {"idle", "returned", "dispatch", "done", "panicked"}

\* The invocation is over: a handler returned or a panic unwound.
Finished == pc \in {"done", "panicked"}

\* The handler the dispatcher owes to a terminal output.
HandlerOf(o) ==
    CASE o.tag = "Branch" -> BranchRun(o.idx, o.val)
      [] o.tag = "WouldBlock" -> DefaultRun
      [] OTHER -> CompleteRun

ExhaustedPanic == "all branches are disabled or completed"

\* ---------------------------------------------------------------- claims

\* C1 (as stated): whenever a run that reached a terminal outcome is over,
\* exactly one handler has been invoked.
C1_ExactlyOneHandlerAlways ==
    (Finished /\ Terminal(output)) => Len(handled) = 1

\* C1 (amended): never more than one handler runs; a run whose terminal
\* outcome is a branch, would-block, or all-completed with `complete`
\* declared ends with exactly one handler invocation, the one of that
\* outcome; a run whose outcome is all-completed with no `complete` clause
\* ends in the panic with no handler invoked.
C1_ExactlyOneHandlerOrAbort ==
    /\ Len(handled) <= 1
    /\ (Finished /\ Terminal(output)) =>
          IF output.tag = "Completed" /\ ~hasComplete
          THEN handled = <<>> /\ pc = "panicked"
          ELSE handled = <<HandlerOf(output)>> /\ pc = "done"
    /\ handled # <<>> => (Terminal(output) /\ handled = <<HandlerOf(output)>>)

C1_Witness ==
    /\ pc = "done"
    /\ sweeps >= 2
    /\ Len(handled) = 1
    /\ handled[1].kind = "complete"

\* C2: in biased mode a sweep visits the branches in index order from 0, so
\* the branch it selects is the lowest-index branch whose poll returned a
\* matching value in that sweep: every lower index was empty, pending or
\* rejected, and no higher index was polled.
C2_BiasedLowestIndexWins ==
    (impl = "proc" /\ biased) =>
        /\ pc = "sweep" =>
              \A b \in Branches : (polled[b] # "no") <=> (b < i)
        /\ (pc = "returned" /\ output.tag = "Branch") =>
              /\ polled[output.idx] = "match"
              /\ \A b \in Branches :
                    /\ b < output.idx =>
                          polled[b] \in {"empty", "pending", "reject"}
                    /\ b > output.idx => polled[b] = "no"

C2_Witness ==
    /\ impl = "proc" /\ biased
    /\ pc = "returned"
    /\ output.tag = "Branch"
    /\ output.idx = 2
    /\ polled[0] = "pending"
    /\ polled[1] = "reject"

\* C3: a branch whose condition is false never has its future expression
\* evaluated, is never polled, is never selected, and is an empty slot in
\* every sweep (so it never keeps the sweep from being all-completed).
C3_DisabledBranchInert ==
    \A b \in Branches :
        ~condition[b] =>
            /\ constructs[b] = 0
            /\ op[b] = "unbuilt"
            /\ futures[b] = "None"
            /\ polls[b] = 0
            /\ polled[b] \in {"no", "empty"}
            /\ ~(output.tag = "Branch" /\ output.idx = b)
            /\ \A k \in 1 .. Len(handled) :
                  ~(handled[k].kind = "branch" /\ handled[k].idx = b)
            /\ (impl = "rules" /\ pc = "sweep" /\ i = BRANCHES) =>
                  b \in completions

C3_Witness ==
    /\ \E b \in Branches : ~condition[b] /\ evals[b] = 1 /\ polled[b] = "empty"
    /\ \E b \in Branches : condition[b]
    /\ pc = "done"
    /\ handled = <<CompleteRun>>

\* A branch whose operation returned a value that its pattern rejected: the
\* operation resolved and the branch is not the one the output names.
Rejected(b) ==
    /\ op[b] = "done"
    /\ ~(output.tag = "Branch" /\ output.idx = b)

\* The decision the code takes after the loop, in a state where the loop
\* of the current sweep has run to its end.
Decision == IF impl = "rules" THEN RulesDecision ELSE ProcDecision

\* C4: a branch whose value was rejected has an empty slot, never runs its
\* handler, is never polled again in the same or a later sweep, and is a
\* completed branch for the decision at the end of every sweep: it sets its
\* bit of the mask and, if no operation reported pending, the decision is
\* not 'still pending'.
C4_RejectedBranchCompleted ==
    /\ [](\A b \in Branches :
            Rejected(b) =>
               /\ futures[b] = "None"
               /\ polled[b] \in {"no", "empty", "reject"}
               /\ \A k \in 1 .. Len(handled) :
                     ~(handled[k].kind = "branch" /\ handled[k].idx = b)
               /\ (pc = "sweep" /\ i = BRANCHES) =>
                     /\ impl = "rules" => b \in completions
                     /\ SweepAllCompleted => Decision.tag # "Pending")
    /\ [][\A b \in Branches : Rejected(b) => polls'[b] = polls[b]]_vars

C4_Witness ==
    /\ \E b \in Branches : Rejected(b) /\ polled[b] = "empty"
    /\ sweeps = 2
    /\ pc = "done"
    /\ Len(handled) = 1
    /\ handled[1].kind = "branch"

\* C5: with both `default` and `complete` declared, a full sweep without a
\* match in which some operation reported pending ends in would-block, and
\* the handler that runs is `default`, never `complete`.
C5_WouldBlockPrecedence ==
    (hasDefault /\ hasComplete /\ SweepSomePending) =>
        /\ (pc = "sweep" /\ i = BRANCHES) => Decision = WouldBlockOut
        /\ SweepOver =>
              /\ output = WouldBlockOut
              /\ pc # "idle"
              /\ panicked = "no"
              /\ handled \in {<<>>, <<DefaultRun>>}
              /\ pc = "done" => handled = <<DefaultRun>>

C5_Witness ==
    /\ hasDefault /\ hasComplete
    /\ SweepSomePending
    /\ \E b \in Branches : polled[b] = "reject"
    /\ pc = "done"
    /\ handled = <<DefaultRun>>

\* C6: with `complete` declared, a full sweep that ends with every branch
\* completed (disabled, or resolved without a matching value) ends in
\* all-completed and the `complete` handler runs, with or without `default`.
C6_CompletionPrecedence ==
    (hasComplete /\ SweepAllCompleted) =>
        /\ (pc = "sweep" /\ i = BRANCHES) => Decision = CompletedOut
        /\ SweepOver =>
              /\ output = CompletedOut
              /\ pc # "idle"
              /\ panicked = "no"
              /\ handled \in {<<>>, <<CompleteRun>>}
              /\ pc = "done" => handled = <<CompleteRun>>

C6_Witness ==
    /\ hasComplete /\ hasDefault
    /\ SweepAllCompleted
    /\ \E b \in Branches : polled[b] = "reject"
    /\ \E b \in Branches : ~condition[b]
    /\ pc = "done"
    /\ handled = <<CompleteRun>>

\* C7: with neither `default` nor `complete`, a full sweep that ends with
\* every branch disabled or completed without a match makes the invocation
\* panic: it does not stay pending, reports no would-block, and no handler
\* returns a value.
C7_FatalAbort ==
    (~hasDefault /\ ~hasComplete /\ SweepAllCompleted) =>
        /\ (pc = "sweep" /\ i = BRANCHES) => Decision = CompletedOut
        /\ SweepOver =>
              /\ output = CompletedOut
              /\ pc \in {"returned", "dispatch", "panicked"}
              /\ handled = <<>>
              /\ pc = "panicked" => panicked = ExhaustedPanic

C7_Witness ==
    /\ ~hasDefault /\ ~hasComplete
    /\ SweepAllCompleted
    /\ sweeps = 2
    /\ pc = "panicked"
    /\ panicked = ExhaustedPanic

\* C8: with `default` but no `complete`, a full sweep that ends with every
\* branch disabled or rejected ends in would-block and the `default`
\* handler runs; it is not all-completed and there is no panic.
C8_DefaultWhenAllCompleted ==
    (hasDefault /\ ~hasComplete /\ SweepAllCompleted) =>
        /\ (pc = "sweep" /\ i = BRANCHES) => Decision = WouldBlockOut
        /\ SweepOver =>
              /\ output = WouldBlockOut
              /\ pc # "idle"
              /\ panicked = "no"
              /\ handled \in {<<>>, <<DefaultRun>>}
              /\ pc = "done" => handled = <<DefaultRun>>

C8_Witness ==
    /\ hasDefault /\ ~hasComplete
    /\ SweepAllCompleted
    /\ \E b \in Branches : polled[b] = "reject"
    /\ \E b \in Branches : ~condition[b]
    /\ pc = "done"
    /\ handled = <<DefaultRun>>

\* C9: with `default` declared the poll_fn never returns Poll::Pending: the
\* first sweep ends the polling, so there is at most one sweep and every
\* operation is polled at most once in the invocation.
C9_NonBlockingOneSweep ==
    hasDefault =>
        /\ output.tag # "Pending"
        /\ (pc = "sweep" /\ i = BRANCHES) => Decision.tag # "Pending"
        /\ sweeps <= 1
        /\ pc = "idle" => sweeps = 0
        /\ \A b \in Branches : polls[b] <= 1

C9_Witness ==
    /\ hasDefault
    /\ BRANCHES >= 2
    /\ \A b \in Branches : polled[b] = "pending" /\ polls[b] = 1
    /\ pc = "done"
    /\ handled = <<DefaultRun>>

\* C10: with no `default`, a full sweep without a match in which some
\* operation reported pending returns Poll::Pending and runs no handler;
\* the all-completed outcome (and so `complete`) is only reported by a sweep
\* in which no operation reported pending and every slot is empty; and the
\* only terminal outcomes are a branch and all-completed.
C10_BlockingPendsWhileAnyPending ==
    ~hasDefault =>
        /\ SweepSomePending =>
              /\ (pc = "sweep" /\ i = BRANCHES) => Decision = PendingOut
              /\ SweepOver =>
                    /\ output = PendingOut
                    /\ handled = <<>>
                    /\ pc = "idle" \/ panicked = "poll"
        /\ output.tag = "Completed" =>
              /\ SweepAllCompleted
              /\ \A b \in Branches : futures[b] = "None"
        /\ CompleteRun \in {handled[k] : k \in 1 .. Len(handled)} =>
              SweepAllCompleted
        /\ output.tag # "WouldBlock"
        /\ panicked # "not in unblocking mode"
        /\ Terminal(output) =>
              \/ output.tag = "Branch" /\ polled[output.idx] = "match"
              \/ output.tag = "Completed" /\ SweepAllCompleted

C10_Witness ==
    /\ ~hasDefault /\ hasComplete
    /\ SweepSomePending
    /\ \E b \in Branches : polled[b] = "reject"
    /\ pc = "idle"
    /\ output = PendingOut
    /\ handled = <<>>

\* A branch that the running sweep has not visited yet and whose operation
\* is ready with a value that passes the filter.
Armed(b) ==
    /\ futures[b] = "Some"
    /\ op[b] = "ready"
    /\ Matches(opVal[b])
    /\ polled[b] = "no"

\* C11: while a sweep runs and some enabled branch it has not visited yet is
\* ready with a matching value, the sweep cannot run to its end-of-sweep
\* decision: it stays in the loop with such a branch still ahead, or returns
\* a branch outcome (or is cut short by a panicking poll, see C20); and a
\* branch outcome never lets `default` or `complete` run.
C11_ReadyMatchEndsInBranch ==
    /\ [][(pc = "sweep" /\ \E b \in Branches : Armed(b)) =>
             \/ pc' = "sweep" /\ i' < BRANCHES /\ \E b \in Branches : Armed(b)'
             \/ pc' = "returned" /\ output'.tag = "Branch"
             \/ pc' = "panicked" /\ panicked' = "poll"]_vars
    /\ [](output.tag = "Branch" =>
             /\ handled \in {<<>>, <<BranchRun(output.idx, output.val)>>}
             /\ panicked = "no"
             /\ pc = "done" => handled = <<BranchRun(output.idx, output.val)>>)

C11_Witness ==
    /\ hasDefault /\ hasComplete
    /\ pc = "returned"
    /\ output.tag = "Branch"
    /\ \E b \in Branches : Armed(b)
    /\ \E b \in Branches : polled[b] = "pending"

\* C12: the first branch in sweep order whose poll returns a matching value
\* ends the sweep at once: the branches before it in the order were empty,
\* pending or rejected, the branches after it are not polled in that sweep,
\* and after the branch outcome no operation is polled and no sweep starts.
C12_FirstMatchStopsSweep ==
    /\ [](output.tag = "Branch" =>
             /\ pc \in {"returned", "dispatch", "done"}
             /\ output.idx = BranchAt(i)
             /\ polled[BranchAt(i)] = "match"
             /\ \A k \in 0 .. (BRANCHES - 1) :
                   /\ k < i => polled[BranchAt(k)] \in
                                   {"empty", "pending", "reject"}
                   /\ k > i => polled[BranchAt(k)] = "no")
    /\ [][output.tag = "Branch" =>
             /\ polls' = polls
             /\ polled' = polled
             /\ sweeps' = sweeps
             /\ output' = output]_vars

C12_Witness ==
    /\ BRANCHES = 3
    /\ output.tag = "Branch"
    /\ pc = "done"
    /\ i = 1
    /\ \E b \in Branches : polled[b] = "no" /\ op[b] = "dropped"
                           /\ polls[b] = 0

\* Polling has begun: the poll_fn was polled, or some operation was.
PollingBegun == sweeps > 0 \/ \E b \in Branches : polls[b] > 0

\* C13: when the first poll happens every condition has been evaluated and
\* every enabled operation constructed, and from then on no condition is
\* evaluated and no operation is constructed.
C13_ConstructionBeforePolling ==
    /\ [](PollingBegun =>
             /\ built = BRANCHES
             /\ \A b \in Branches :
                   /\ evals[b] = 1
                   /\ constructs[b] = IF condition[b] THEN 1 ELSE 0)
    /\ [](pc = "build" => ~PollingBegun)
    /\ [][PollingBegun =>
             (evals' = evals /\ constructs' = constructs /\ built' = built)]_vars

C13_Witness ==
    /\ BRANCHES = 3
    /\ \E b \in Branches : condition[b] /\ polls[b] = 1 /\ constructs[b] = 1
    /\ \E b \in Branches : ~condition[b] /\ evals[b] = 1
    /\ pc = "sweep"
    /\ sweeps = 1

\* C14: the condition of a branch is evaluated exactly once, when its slot
\* is constructed, and never again; whether the branch has an operation is
\* decided by that evaluation and does not change afterwards.
C14_ConditionEvaluatedOnce ==
    /\ [](\A b \in Branches :
             /\ evals[b] = IF b < built THEN 1 ELSE 0
             /\ constructs[b] <= 1
             /\ b < built => ((op[b] # "unbuilt") <=> condition[b]))
    /\ [][\A b \in Branches :
             b < built =>
                /\ evals'[b] = evals[b]
                /\ constructs'[b] = constructs[b]
                /\ (op'[b] = "unbuilt") <=> (op[b] = "unbuilt")]_vars

C14_Witness ==
    /\ sweeps = 2
    /\ pc = "sweep"
    /\ i = BRANCHES
    /\ \A b \in Branches : evals[b] = 1
    /\ \E b \in Branches : condition[b] /\ polls[b] = 2
    /\ \E b \in Branches : ~condition[b]

\* The sweeps of this invocation rotate from an address-derived start.
Unbiased == ~(impl = "proc" /\ biased)

\* C15: without `biased` the branch a sweep visits first is the one at the
\* start index, and a ready, matching branch visited first is the one
\* selected whatever else is ready; every branch index is the start index
\* of some address, so for each of several ready branches there is a start
\* for which it is the branch selected.
C15_UnbiasedEveryBranchCanWin ==
    /\ [](Unbiased =>
             /\ \A b \in Branches :
                   \E addr \in 0 .. MaxAddr : StartIndex(addr) % BRANCHES = b
             /\ pc = "sweep" =>
                   /\ \E addr \in 0 .. MaxAddr : start = StartIndex(addr)
                   /\ i = 0 => \A b \in Branches : polled[b] = "no"
                   /\ i > 0 => polled[start % BRANCHES] \in
                                  {"empty", "pending", "reject"}
             /\ (pc = "returned" /\ output.tag = "Branch" /\ i = 0) =>
                   output.idx = start % BRANCHES)
    /\ [][(Unbiased /\ pc = "sweep" /\ i = 0 /\ Armed(start % BRANCHES)
              /\ polls' # polls) =>
             (output'.tag = "Branch" /\ output'.idx = start % BRANCHES)]_vars

C15_Witness ==
    /\ impl = "proc" /\ ~biased
    /\ BRANCHES = 3
    /\ pc = "returned"
    /\ output.tag = "Branch"
    /\ output.idx = 2
    /\ i = 0
    /\ Armed(0) /\ Armed(1)

\* C16: for every branch count from 1 to 64 the constant COMPLETED has
\* exactly the bits 0..N-1 (all 64 bits at N = 64), the bit of every branch
\* is a bit of the 64-bit mask (no shift overflows) and the mask never has a
\* bit outside COMPLETED, and at the end of a sweep the mask equals
\* COMPLETED, and the all-completed outcome is decided, exactly when all N
\* slots are empty.
C16_MaskExactForEveryArity ==
    /\ BRANCHES \in 1 .. MaxArity
    /\ COMPLETED = 0 .. (BRANCHES - 1)
    /\ Cardinality(COMPLETED) = BRANCHES
    /\ BRANCHES = MaxArity => COMPLETED = U64Max
    /\ \A b \in Branches : b < MaskBits /\ Shl1(b) = {b}
    /\ completions \subseteq COMPLETED
    /\ (pc = "sweep" /\ i = BRANCHES) =>
          /\ (completions = COMPLETED) <=>
                (\A b \in Branches : futures[b] = "None")
          /\ (Decision = CompletedOut) <=>
                (\A b \in Branches : futures[b] = "None")

C16_Witness ==
    /\ BRANCHES = MaxArity
    /\ condition[MaxArity - 1]
    /\ polled[MaxArity - 1] = "reject"
    /\ completions = U64Max
    /\ output = CompletedOut
    /\ pc = "done"
    /\ handled = <<CompleteRun>>

\* An operation that has been constructed and has not resolved.
Unresolved(b) == op[b] \in {"pending", "ready", "panics"}

\* C17: once a sweep has reported a terminal outcome (a branch, would-block
\* or all-completed) the poll loop is never entered again and no operation
\* is polled again: the outcome, the sweep count and every poll count stay
\* as they are, and the only change to an operation is that the unresolved
\* ones are dropped, unpolled, when the table goes out of scope before the
\* handler runs.
C17_TerminalOutcomeIsFinal ==
    /\ [](Terminal(output) =>
            /\ pc \in {"returned", "dispatch", "done", "panicked"}
            /\ pc # "returned" =>
                  \A b \in Branches : futures[b] = "None" /\ ~Unresolved(b)
            /\ handled # <<>> => pc = "done")
    /\ [][Terminal(output) =>
            /\ pc' \notin {"build", "idle", "sweep"}
            /\ output' = output
            /\ sweeps' = sweeps
            /\ polls' = polls
            /\ polled' = polled
            /\ \A b \in Branches :
                  op'[b] # op[b] => Unresolved(b) /\ op'[b] = "dropped"]_vars

C17_Witness ==
    /\ output = WouldBlockOut
    /\ pc = "done"
    /\ handled = <<DefaultRun>>
    /\ \E b \in Branches : op[b] = "dropped" /\ polls[b] = 1
    /\ \E b \in Branches : op[b] = "done"

\* The branches that have reached a terminal state: disabled from the start,
\* or resolved (the value was consumed by a match or rejected by the pattern).
TerminalBranches ==
    {b \in Branches : b < built /\ op[b] \in {"unbuilt", "done"}}

\* C18 as stated: the count of terminal branches never decreases and every
\* invocation that runs a handler has seen it equal N.
C18_CounterReachesNExactlyOnce ==
    /\ [][TerminalBranches \subseteq TerminalBranches']_vars
    /\ [](pc = "done" => TerminalBranches = Branches)

\* C18, amended: the set of terminal branches never shrinks within an
\* invocation.  The mask of the rules expansion is rebuilt from zero in every
\* sweep, only grows within the sweep, and at the end of a full sweep is
\* exactly the set of terminal branches.  The count need not reach N (a
\* selected branch or a pending invocation leaves operations unresolved);
\* when it does, the sweep that sees it is the last one (if all branches are
\* disabled that is the first sweep), no operation is polled again and no
\* branch outcome is produced afterwards.
C18_CompletionCounter ==
    /\ [][TerminalBranches \subseteq TerminalBranches']_vars
    /\ [][sweeps' = sweeps => completions \subseteq completions']_vars
    /\ [][sweeps' # sweeps => completions' = {}]_vars
    /\ []((impl = "rules" /\ pc = "sweep" /\ i = BRANCHES) =>
            completions = TerminalBranches)
    /\ [][TerminalBranches = Branches =>
            /\ sweeps >= 1 => sweeps' = sweeps
            /\ polls' = polls
            /\ output'.tag = "Branch" => output' = output]_vars

C18_Witness ==
    /\ impl = "rules"
    /\ BRANCHES = 3
    /\ sweeps = 2
    /\ pc = "done"
    /\ TerminalBranches = Branches
    /\ \E b \in Branches : polls[b] = 2
    /\ \E b \in Branches : polls[b] = 0
    /\ handled = <<CompleteRun>>

\* The input has no branch, or more than one `default`, or more than one
\* `complete`.
Invalid(clauses) ==
    \/ Count(clauses, "branch") = 0
    \/ Count(clauses, "default") > 1
    \/ Count(clauses, "complete") > 1

\* C19: an input with no branch (nothing, only `default`, only `complete`,
\* or both), with more than one `default` or with more than one `complete`
\* is rejected with a compile error and never leaves the parser: no branch
\* table is built, no condition is evaluated, no operation is constructed
\* or polled, no sweep and no handler runs, and nothing follows the
\* rejection.
C19_InvalidInputRejectedAtParse ==
    /\ [](Invalid(source) => pc \in {"parse", "rejected"})
    /\ [](pc = "rejected" => diag # "none")
    /\ [](pc \in {"parse", "rejected"} =>
            /\ built = 0
            /\ sweeps = 0
            /\ evals = <<>> /\ constructs = <<>> /\ polls = <<>>
            /\ output = NoOutput
            /\ handled = <<>>
            /\ panicked = "no")
    /\ [][pc # "rejected"]_vars

C19_Witness ==
    /\ source = <<"branch", "default", "complete", "default">>
    /\ pc = "rejected"
    /\ pos = 4
    /\ BRANCHES = 1
    /\ diag = "more than one default clauses"
    /\ evals = <<>>

\* C20: a panic raised by an operation's poll is not intercepted.  It ends
\* the sweep at the branch that panicked and ends the invocation: the
\* branches that come later in the sweep order are not polled, the sweep
\* reports no outcome, no handler (branch, default or complete) has run or
\* runs, every operation still held is dropped, and no step follows.
C20_PollPanicPropagates ==
    /\ [](\A b \in Branches : polled[b] = "panic" => panicked = "poll")
    /\ [](panicked = "poll" =>
            /\ pc = "panicked"
            /\ i < BRANCHES
            /\ polled[BranchAt(i)] = "panic"
            /\ \A k \in 0 .. (BRANCHES - 1) :
                  /\ k < i => polled[BranchAt(k)] \in
                                  {"empty", "pending", "reject"}
                  /\ k > i => polled[BranchAt(k)] = "no"
            /\ ~Terminal(output)
            /\ handled = <<>>
            /\ \A b \in Branches : futures[b] = "None" /\ ~Unresolved(b))
    /\ [][panicked # "poll"]_vars

C20_Witness ==
    /\ panicked = "poll"
    /\ pc = "panicked"
    /\ hasDefault /\ hasComplete
    /\ BRANCHES = 3
    /\ i = 1
    /\ polled[BranchAt(0)] = "pending"
    /\ op[BranchAt(2)] = "dropped"
    /\ polls[BranchAt(2)] = 0

\* What a poll of an operation can find: still pending, a panic, or a value.
Readiness ==
    {[st |-> "pending", val |-> 0], [st |-> "panics", val |-> 0]}
        \cup {[st |-> "ready", val |-> v] : v \in Values}

PanicOut == [tag |-> "Panic", idx |-> 0, val |-> 0]

\* The biased sweep as a function: from index k, with `slots` the branches
\* whose slot holds an operation, `pend` the any_pending flag so far and
\* rd[b] what a poll of operation b finds, the value the poll_fn returns
\* and the slots left.  `let branch = i`, then the arm of the branch.
RECURSIVE BiasedSweep(_, _, _, _)
BiasedSweep(k, slots, pend, rd) ==
    IF k = BRANCHES
    THEN [out |-> IF TracksPending /\ ~pend THEN CompletedOut
                  ELSE IF hasDefault THEN WouldBlockOut ELSE PendingOut,
          slots |-> slots]
    ELSE IF k \notin slots
    THEN BiasedSweep(k + 1, slots, pend, rd)
    ELSE IF rd[k].st = "pending"
    THEN BiasedSweep(k + 1, slots, TRUE, rd)
    ELSE IF rd[k].st = "panics"
    THEN [out |-> PanicOut, slots |-> {}]
    ELSE IF Matches(rd[k].val)
    THEN [out |-> BranchOut(k, rd[k].val), slots |-> slots \ {k}]
    ELSE BiasedSweep(k + 1, slots \ {k}, pend, rd)

\* The last sweep is over and nothing has happened to the table since.
JustSwept ==
    \/ pc \in {"idle", "returned"} /\ sweeps >= 1
    \/ panicked = "poll"

\* The branches the last sweep polled, and those it did not reach.
PolledSet == {b \in Branches : polled[b] \in {"pending", "reject", "match", "panic"}}
UnreachedSet == {b \in Branches : polled[b] = "no"}

\* The slots that held an operation when the last sweep started.
SlotsBefore ==
    PolledSet \cup {b \in UnreachedSet : futures[b] = "Some" \/ op[b] = "dropped"}

\* The readiness the last sweep saw, with `fill` for the operations it did
\* not poll.
SeenReadiness(fill) ==
    [b \in Branches |->
        CASE polled[b] = "pending" -> [st |-> "pending", val |-> 0]
          [] polled[b] = "panic" -> [st |-> "panics", val |-> 0]
          [] polled[b] = "match" -> [st |-> "ready", val |-> output.val]
          [] polled[b] = "reject" -> [st |-> "ready", val |-> 0]
          [] polled[b] = "empty" -> [st |-> "pending", val |-> 0]
          [] OTHER -> fill[b]]

\* C21: in biased mode what a sweep returns, and the slots it leaves, are a
\* function of the mode (default/complete declared), the slots that held an
\* operation when it started and what the polls found: whatever the address
\* of the table and whatever the state of the operations the sweep did not
\* poll, the result is BiasedSweep of these.  Two invocations with the same
\* conditions, mode and per-sweep readiness therefore go through the same
\* sweeps to the same outcome.
C21_BiasedOutcomeIsAFunction ==
    (impl = "proc" /\ biased /\ JustSwept) =>
        \A fill \in [UnreachedSet -> Readiness] :
            LET r == BiasedSweep(0, SlotsBefore, FALSE, SeenReadiness(fill)) IN
                /\ IF panicked = "poll" THEN r.out = PanicOut
                                         ELSE r.out = output
                /\ r.slots = {b \in Branches : futures[b] = "Some"}

C21_Witness ==
    /\ impl = "proc" /\ biased
    /\ BRANCHES = 3
    /\ sweeps = 2
    /\ pc = "returned"
    /\ output = BranchOut(1, 1)
    /\ polled[0] = "pending"
    /\ op[2] = "ready"

\* The operation of branch b has reported ready (its value was taken).
ReportedReady(b) == op[b] = "done"

\* C22: the slot of an operation is emptied in the step in which its poll
\* reports ready, whether the value then matches the pattern or not, so an
\* operation that has reported ready is never polled again; when a branch
\* outcome is reported the slot of the winning branch is already empty.
C22_SlotEmptiedOnReady ==
    /\ [](\A b \in Branches :
            /\ ReportedReady(b) => futures[b] = "None"
            /\ polled[b] \in {"match", "reject"} =>
                  ReportedReady(b) /\ futures[b] = "None")
    /\ [](output.tag = "Branch" =>
            ReportedReady(output.idx) /\ futures[output.idx] = "None")
    /\ [][\A b \in Branches :
            /\ ReportedReady(b) => polls'[b] = polls[b] /\ ReportedReady(b)'
            /\ (polls'[b] # polls[b] /\ op[b] = "ready") =>
                  futures'[b] = "None" /\ ReportedReady(b)']_vars

C22_Witness ==
    /\ pc = "returned"
    /\ output.tag = "Branch"
    /\ futures[output.idx] = "None"
    /\ sweeps = 2
    /\ \E b \in Branches :
          /\ b # output.idx
          /\ ReportedReady(b)
          /\ polled[b] = "empty"
          /\ polls[b] = 1
    /\ \E b \in Branches : futures[b] = "Some"

\* The branches the loop indices below k select.
VisitedBefore(k) == {BranchAt(j) : j \in 0 .. (k - 1)}

\* C23: whatever the starting index, the loop indices 0..N-1 select every
\* branch exactly once, beginning with the branch at start mod N and going
\* on round-robin; biased mode is the rotation that begins at 0.  In a
\* running sweep the branches already visited are exactly those of the
\* indices passed, and a sweep that runs to its end has visited them all.
C23_SweepOrderIsARotation ==
    /\ {BranchAt(k) : k \in 0 .. (BRANCHES - 1)} = Branches
    /\ \A j, k \in 0 .. (BRANCHES - 1) : BranchAt(j) = BranchAt(k) => j = k
    /\ BranchAt(0) = IF impl = "proc" /\ biased THEN 0 ELSE start % BRANCHES
    /\ \A k \in 0 .. (BRANCHES - 2) :
          BranchAt(k + 1) = (BranchAt(k) + 1) % BRANCHES
    /\ pc = "sweep" =>
          /\ \A b \in Branches : polled[b] # "no" <=> b \in VisitedBefore(i)
          /\ i = BRANCHES => \A b \in Branches : polled[b] # "no"

C23_Witness ==
    /\ impl = "proc" /\ ~biased
    /\ BRANCHES = 3
    /\ start % BRANCHES = 2
    /\ BranchAt(1) = 0
    /\ pc = "sweep"
    /\ i = BRANCHES
    /\ \A b \in Branches : polls[b] = 1 /\ polled[b] = "pending"

\* C24: a sweep polls a branch exactly when it finds an operation in its
\* slot, once, and whether or not that operation has become ready (the sweep
\* does not look at what caused the wake-up).  So at the end of a sweep
\* without a match each branch whose slot held an operation has been polled
\* once in this sweep and in every sweep before it, polls = sweeps, and each
\* branch whose slot was empty has not been polled in this sweep: never, if
\* it was disabled, and only in earlier sweeps otherwise.
C24_NonEmptySlotsPolledOncePerSweep ==
    /\ []((pc = "sweep" /\ i = BRANCHES) =>
            \A b \in Branches :
               /\ polled[b] \in {"pending", "reject", "empty"}
               /\ polled[b] \in {"pending", "reject"} => polls[b] = sweeps
               /\ polled[b] = "empty" =>
                     /\ polls[b] < sweeps
                     /\ ~condition[b] => polls[b] = 0
               /\ futures[b] = "Some" <=> polled[b] = "pending")
    /\ [][\A b \in Branches :
            polls'[b] # polls[b] =>
               /\ pc = "sweep"
               /\ b = BranchAt(i)
               /\ futures[b] = "Some"
               /\ polled[b] = "no"
               /\ polls'[b] = polls[b] + 1]_vars
    /\ [][(pc = "sweep" /\ polled' # polled) =>
            (polls' = polls <=> futures[BranchAt(i)] = "None")]_vars

C24_Witness ==
    /\ pc = "sweep"
    /\ i = BRANCHES
    /\ sweeps = 2
    /\ BRANCHES = 3
    /\ \E b \in Branches : polled[b] = "pending" /\ op[b] = "pending"
    /\ \E b \in Branches : polled[b] = "reject" /\ polls[b] = 2
    /\ \E b \in Branches : polled[b] = "empty" /\ polls[b] = 1

\* C25: the all-completed outcome is only reported by a sweep that ran to
\* its end and in which no operation reported pending: every branch was
\* found disabled or already resolved, or resolved in this sweep with a
\* rejected value, so no slot holds an operation.  No branch matched in the
\* invocation: the outcome before it was 'still pending' or none, and no
\* branch handler has run or runs.
C25_CompletedOnlyAfterEmptyFullSweep ==
    /\ [](output = CompletedOut =>
            /\ i = BRANCHES
            /\ \A b \in Branches :
                  /\ polled[b] \in {"empty", "reject"}
                  /\ futures[b] = "None"
                  /\ op[b] \in {"unbuilt", "done"}
            /\ handled \in {<<>>, <<CompleteRun>>})
    /\ [][(output' = CompletedOut /\ output # CompletedOut) =>
            /\ pc = "sweep"
            /\ i = BRANCHES
            /\ output.tag \in {"None", "Pending"}
            /\ \A b \in Branches : polled[b] # "pending"]_vars

C25_Witness ==
    /\ output = CompletedOut
    /\ pc = "returned"
    /\ sweeps = 2
    /\ BRANCHES = 3
    /\ \E b \in Branches : polled[b] = "reject" /\ polls[b] = 2
    /\ \E b \in Branches : polled[b] = "empty" /\ polls[b] = 1
    /\ \E b \in Branches : ~condition[b]

\* C26: would-block is reported only when a `default` clause is declared.
\* Without one no sweep ends in would-block, the `default` arm of the
\* dispatcher is never selected, and its placeholder
\* unreachable!("not in unblocking mode") is never executed; with one, the
\* arm that runs for would-block is the declared handler.
C26_WouldBlockNeedsDefault ==
    /\ output = WouldBlockOut => hasDefault
    /\ (pc = "sweep" /\ i = BRANCHES /\ ~hasDefault) =>
          Decision # WouldBlockOut
    /\ panicked # DefaultArm.panic \/ panicked = "no"
    /\ \A k \in 1 .. Len(handled) :
          handled[k] = DefaultRun => hasDefault /\ output = WouldBlockOut
    /\ ~hasDefault => DefaultArm.run = <<>> /\ DefaultArm.panic # "no"

C26_Witness ==
    /\ ~hasDefault /\ hasComplete
    /\ impl = "rules"
    /\ sweeps = 2
    /\ pc = "done"
    /\ output = CompletedOut
    /\ \E b \in Branches : polls[b] = 2

\* C27: the branch table is gone before a handler runs.  In the state in
\* which the dispatcher selects its arm, and in every state after a handler
\* (branch, default or complete) has run, every slot is empty and no
\* operation is held: those that never resolved have been dropped.
C27_TableDroppedBeforeHandler ==
    /\ []((pc = "dispatch" \/ handled # <<>>) =>
            \A b \in Branches :
               /\ futures[b] = "None"
               /\ op[b] \in {"unbuilt", "done", "dropped"})
    /\ [][handled' # handled =>
            /\ pc = "dispatch"
            /\ \A b \in Branches :
                  futures[b] = "None" /\ op[b] = op'[b] /\ ~Unresolved(b)]_vars

C27_Witness ==
    /\ pc = "done"
    /\ BRANCHES = 3
    /\ handled = <<BranchRun(1, 1)>>
    /\ op[0] = "dropped" /\ polls[0] = 2
    /\ op[2] = "dropped" /\ polls[2] = 1

\* C28: nothing but the table is carried from one sweep to the next.  A
\* sweep that reported 'still pending' leaves in the table exactly the
\* operations that reported pending: of the slots that held an operation
\* when it started it emptied those whose value was rejected, and no other
\* slot changed.  The next sweep changes neither the table nor the
\* operations when it starts, and starts afresh: loop index 0, no flag or
\* mask bit set, nothing polled, and a start that is 0 in biased mode and
\* otherwise taken from an address, not from where the last sweep stopped.
C28_OnlyTheTableIsCarried ==
    /\ []((pc = "idle" /\ sweeps >= 1) =>
            /\ output = PendingOut
            /\ {b \in Branches : futures[b] = "Some"} =
                  SlotsBefore \ {b \in Branches : polled[b] = "reject"}
            /\ \A b \in Branches :
                  /\ futures[b] = "Some" <=> polled[b] = "pending"
                  /\ futures[b] = "None" <=> polled[b] \in {"empty", "reject"})
    /\ [][(pc = "idle" /\ pc' = "sweep") =>
            /\ futures' = futures /\ op' = op /\ opVal' = opVal
            /\ i' = 0
            /\ any_pending' = FALSE
            /\ completions' = {}
            /\ polled' = [b \in Branches |-> "no"]
            /\ (impl = "proc" /\ biased) => start' = 0 /\ BranchAt(0)' = 0
            /\ \E addr \in 0 .. MaxAddr :
                  start' = IF impl = "proc" /\ biased THEN 0
                           ELSE StartIndex(addr)]_vars

C28_Witness ==
    /\ impl = "proc" /\ biased
    /\ ~hasDefault
    /\ BRANCHES = 3
    /\ pc = "sweep"
    /\ sweeps = 2
    /\ i = 0
    /\ op[0] = "done" /\ polls[0] = 1 /\ futures[0] = "None"
    /\ futures[1] = "Some" /\ polls[1] = 1
    /\ futures[2] = "Some" /\ polls[2] = 1

\* The place of branch b in the order of the current sweep.
SweepPosition(b) ==
    IF impl = "proc" /\ biased THEN b
    ELSE (b + BRANCHES - (start % BRANCHES)) % BRANCHES

\* The operation of branch a became ready before that of branch b.
ReadyBefore(a, b) ==
    \E m, n \in 1 .. Len(woken) : m < n /\ woken[m] = a /\ woken[n] = b

\* C29: the branch a sweep selects is the first, in the order of that sweep,
\* whose poll returns a matching value.  At the step that selects it every
\* other branch that is ready with a matching value and has not been polled
\* comes later in the sweep order, whether its operation became ready
\* before or after the winner's.
C29_WinnerBySweepOrder ==
    /\ [][(pc = "sweep" /\ pc' = "returned" /\ output'.tag = "Branch") =>
            /\ Armed(output'.idx)
            /\ SweepPosition(output'.idx) = i
            /\ \A a \in Branches :
                  (Armed(a) /\ a # output'.idx) =>
                      SweepPosition(a) > SweepPosition(output'.idx)]_vars
    /\ [](pc = "returned" /\ output.tag = "Branch" =>
            \A a \in Branches :
               SweepPosition(a) < SweepPosition(output.idx) =>
                   polled[a] \in {"empty", "pending", "reject"})

C29_Witness ==
    /\ pc = "returned"
    /\ BRANCHES = 3
    /\ output.tag = "Branch"
    /\ \E a \in Branches :
          /\ Armed(a)
          /\ ReadyBefore(a, output.idx)
          /\ polls[a] = 1
    /\ sweeps = 2

\* The closure given to poll_fn, as a function: from loop index k, with
\* `slots` the branches whose slot holds an operation, `pend` and `mask`
\* the flag and the completion mask so far, and rd[b] what a poll of
\* operation b finds, the value it returns and the slots it leaves.  `im`
\* selects the end-of-sweep decision: the mask test or the flag test.
RECURSIVE PollFn(_, _, _, _, _, _)
PollFn(im, k, slots, pend, mask, rd) ==
    IF k = BRANCHES
    THEN [out |-> IF im = "rules"
                  THEN IF mask = COMPLETED /\ (when_completed \/ ~non_blocking)
                       THEN CompletedOut
                       ELSE IF non_blocking THEN WouldBlockOut ELSE PendingOut
                  ELSE IF TracksPending /\ ~pend
                       THEN CompletedOut
                       ELSE IF hasDefault THEN WouldBlockOut ELSE PendingOut,
          slots |-> slots]
    ELSE LET b == BranchAt(k) IN
         IF b \notin slots
         THEN PollFn(im, k + 1, slots, pend, mask \cup Shl1(b), rd)
         ELSE IF rd[b].st = "pending"
         THEN PollFn(im, k + 1, slots, TRUE, mask, rd)
         ELSE IF rd[b].st = "panics"
         THEN [out |-> PanicOut, slots |-> {}]
         ELSE IF Matches(rd[b].val)
         THEN [out |-> BranchOut(b, rd[b].val), slots |-> slots \ {b}]
         ELSE PollFn(im, k + 1, slots \ {b}, pend, mask \cup Shl1(b), rd)

\* rd gives branch x a value that its pattern rejects.
RejectedBy(rd, x) == rd[x].st = "ready" /\ ~Matches(rd[x].val)

\* The operations the last sweep did not poll, taken as still pending.
UnreachedPending == [b \in UnreachedSet |-> [st |-> "pending", val |-> 0]]

\* C30: a branch that yields a rejected value on its first poll cannot be
\* told from a disabled one.  After every sweep, what the sweep returned and
\* the slots it left are PollFn of the slots it started with and of what
\* its polls found; and for each branch x whose first poll, in this sweep,
\* gave a rejected value, PollFn returns the same and leaves the same slots
\* when x starts the sweep with an empty slot instead.  From then on x is an
\* empty slot in both invocations, so they go on to the same outcome.
C30_RejectedLikeDisabled ==
    JustSwept =>
        LET rd == SeenReadiness(UnreachedPending)
            r == PollFn(impl, 0, SlotsBefore, FALSE, {}, rd)
        IN /\ IF panicked = "poll" THEN r.out = PanicOut
                                    ELSE r.out = output
           /\ r.slots = {b \in Branches : futures[b] = "Some"}
           /\ \A x \in Branches :
                 (polled[x] = "reject" /\ polls[x] = 1) =>
                     /\ x \in SlotsBefore
                     /\ RejectedBy(rd, x)
                     /\ PollFn(impl, 0, SlotsBefore \ {x}, FALSE, {}, rd) = r

C30_Witness ==
    /\ pc = "returned"
    /\ sweeps = 1
    /\ BRANCHES = 3
    /\ output.tag = "Branch"
    /\ \E x \in Branches : polled[x] = "reject" /\ polls[x] = 1
    /\ \E z \in Branches : ~condition[z] /\ polled[z] = "empty"

\* The step polls branch b and obtains a value that passes its pattern.
ObtainsMatch(b) ==
    /\ polls'[b] = polls[b] + 1
    /\ op[b] = "ready"
    /\ Matches(opVal[b])

\* C31: a value that passes its branch's pattern is obtained at most once in
\* an invocation and is not discarded.  The step that obtains it is the
\* first and only one to set a branch outcome, the outcome holds that value,
\* it is never overwritten and no operation is polled after it; the
\* invocation does not panic with it, and when the invocation is over the
\* value has been given to exactly one handler run, that of its branch.
C31_MatchedValueConsumedOnce ==
    /\ [][\A b \in Branches :
            ObtainsMatch(b) =>
               /\ output.tag \in {"None", "Pending"}
               /\ output' = BranchOut(b, opVal[b])
               /\ handled = <<>>]_vars
    /\ [][output.tag = "Branch" => output' = output /\ polls' = polls]_vars
    /\ [][(output'.tag = "Branch" /\ output # output') =>
            \E b \in Branches : ObtainsMatch(b)]_vars
    /\ [](output.tag = "Branch" =>
            /\ Matches(output.val)
            /\ panicked = "no"
            /\ handled \in {<<>>, <<BranchRun(output.idx, output.val)>>}
            /\ Finished => handled = <<BranchRun(output.idx, output.val)>>)
    /\ [](\A k \in 1 .. Len(handled) :
            handled[k].kind = "branch" =>
                /\ Len(handled) = 1
                /\ output = BranchOut(handled[k].idx, handled[k].val))

C31_Witness ==
    /\ pc = "done"
    /\ sweeps = 2
    /\ BRANCHES = 3
    /\ output.tag = "Branch"
    /\ handled = <<BranchRun(output.idx, 1)>>
    /\ \E b \in Branches : op[b] = "done" /\ b # output.idx /\ polls[b] = 1
    /\ \E b \in Branches : op[b] = "dropped" /\ polls[b] = 1

\* The branch whose operation the step polls, if it polls one.
PolledNow(b) == polls'[b] = polls[b] + 1

\* C32: the handler that runs for a branch outcome is the one with the index
\* of the slot whose operation produced the value, bound to exactly that
\* value.  The step that sets a branch outcome polls one slot, tags the
\* outcome with that slot's index and stores the value its operation
\* returned; the dispatcher then runs the handler of the tagged index on the
\* stored value, and that index is the only branch recorded as matched.
C32_HandlerOfThePolledSlot ==
    /\ [][(output' # output /\ output'.tag = "Branch") =>
            \E b \in Branches :
               /\ PolledNow(b)
               /\ \A c \in Branches \ {b} : polls'[c] = polls[c]
               /\ b = BranchAt(i)
               /\ op[b] = "ready"
               /\ output'.idx = b
               /\ output'.val = opVal[b]]_vars
    /\ [][(handled' # handled /\ output.tag = "Branch") =>
            /\ handled' = <<[kind |-> "branch", idx |-> output.idx,
                                val |-> output.val]>>
            /\ output' = output]_vars
    /\ [](output.tag = "Branch" =>
            \A b \in Branches : polled[b] = "match" <=> b = output.idx)

C32_Witness ==
    /\ pc = "done"
    /\ BRANCHES = 3
    /\ output = BranchOut(1, 1)
    /\ handled = <<BranchRun(1, 1)>>
    /\ polled[1] = "match"
    /\ polled[0] = "pending"
    /\ polled[2] = "reject"

\* C33: the poll loop reports "still pending" only if in that sweep at least
\* one operation was polled and reported not-yet-ready, so it is never
\* reported when every slot is empty.  The step that reports it ends a full
\* sweep of an invocation without default; until the next sweep begins, a
\* branch polled pending in that sweep still holds its operation.
C33_PendingNeedsAPendingPoll ==
    /\ [][(output'.tag = "Pending" /\ output # output') =>
            /\ pc = "sweep" /\ i = BRANCHES
            /\ ~hasDefault
            /\ \E b \in Branches :
                  /\ polled[b] = "pending"
                  /\ polls[b] >= 1
                  /\ futures[b] # "None"
            /\ \E b \in Branches : futures'[b] # "None"]_vars
    /\ []((output.tag = "Pending" /\ pc = "idle") =>
            \E b \in Branches :
               polled[b] = "pending" /\ futures[b] # "None")

C33_Witness ==
    /\ pc = "idle"
    /\ sweeps = 2
    /\ BRANCHES = 3
    /\ output = PendingOut
    /\ \E b \in Branches : polled[b] = "empty"
    /\ \E b \in Branches : polled[b] = "reject"
    /\ \E b \in Branches : polled[b] = "pending"

\* ------------------------------------------------- a scheduler that re-polls
\* The executor polls the poll_fn again after one of the operations it holds
\* has called the waker: the closure starts a new sweep.
Repoll(addr) ==
    /\ pc = "idle"
    /\ sweeps >= 1
    /\ \E b \in Branches : futures[b] # "None" /\ op[b] = "ready"
    /\ start' = IF impl = "proc" /\ biased THEN 0
                ELSE StartIndex(IF impl = "rules" THEN addr ELSE place)
    /\ i' = 0
    /\ any_pending' = FALSE
    /\ completions' = {}
    /\ polled' = [b \in Branches |-> "no"]
    /\ sweeps' = sweeps + 1
    /\ pc' = "sweep"
    /\ UNCHANGED <<cfgVars, built, futures, op, opVal, output, handled,
                   panicked, polls, evals, constructs>>

\* The executor polls the poll_fn for the first time.
FirstPoll(addr) == sweeps = 0 /\ StartSweep(addr)

\* The steps of the invocation and of the executor that drives it: the
\* executor polls once, and again each time it has been woken.
Step ==
    \/ Build
    \/ Await
    \/ \E addr \in 0 .. MaxAddr : FirstPoll(addr)
    \/ \E addr \in 0 .. MaxAddr : Repoll(addr)
    \/ Visit
    \/ EndSweep
    \/ ScopeEnd
    \/ Dispatch

\* Operation b, while pending, becomes ready.
Ready(b) == b \in Branches /\ \E v \in Values : Wake(b, v)

NextLive ==
    \/ Step
    \/ \E b \in 0 .. MaxBranches - 1 : Ready(b)

\* The executor keeps polling and the invocation keeps stepping (WF on Step);
\* every operation that is pending eventually becomes ready and then stays
\* ready until polled (WF on Ready(b), Wake being the only step that changes
\* a pending operation here).
SpecLive ==
    /\ Init
    /\ [][NextLive]_vars
    /\ WF_vars(Step)
    /\ \A b \in 0 .. MaxBranches - 1 : WF_vars(Ready(b))

\* The invocation ended in a branch handler, the complete handler or the
\* abort for an exhausted select.
TerminalOutcome ==
    \/ /\ pc = "done"
       /\ Len(handled) = 1
       /\ handled[1].kind \in {"branch", "complete"}
    \/ /\ pc = "panicked"
       /\ panicked = "all branches are disabled or completed"

\* C34: in blocking mode (no default), if the executor keeps re-polling and
\* every enabled operation eventually becomes ready and stays ready until
\* polled, the invocation eventually ends in a branch handler, the complete
\* handler or the fatal abort.
C34_BlockingEventuallyTerminal ==
    ~hasDefault => <>TerminalOutcome

C34_Witness ==
    /\ ~hasDefault
    /\ TerminalOutcome
    /\ sweeps = 4
    /\ BRANCHES = 3
    /\ handled = <<CompleteRun>>

\* The slots that hold no operation.
EmptySlots == {b \in Branches : futures[b] = "None"}

\* C35: slot emptiness is monotonic.  Once construction has passed a branch,
\* a slot that is empty (disabled, or emptied when its operation was ready)
\* never holds an operation again.  Hence the slots found empty in a sweep,
\* which are those empty at the end of the previous sweep, are still empty
\* at the end of this sweep, as are the slots whose operation it found
\* ready; a slot polled pending keeps its operation until the next sweep or
\* the end of the scope.
C35_SlotEmptinessMonotonic ==
    /\ [][\A b \in Branches :
            (b < built /\ futures[b] = "None") => futures'[b] = "None"]_vars
    /\ [][built = BRANCHES => EmptySlots \subseteq EmptySlots']_vars
    /\ [](\A b \in Branches :
            polled[b] \in {"empty", "reject", "match"} => b \in EmptySlots)
    /\ [](\A b \in Branches :
            (polled[b] = "pending" /\ pc \in {"sweep", "idle"}) =>
                b \notin EmptySlots)
    /\ [][\A b \in Branches :
            (polled' # polled /\ polled'[b] = "empty") =>
                b \in EmptySlots /\ polls'[b] = polls[b]]_vars

C35_Witness ==
    /\ pc = "idle"
    /\ sweeps = 2
    /\ BRANCHES = 3
    /\ \E b \in Branches :
          polled[b] = "empty" /\ op[b] = "done" /\ polls[b] = 1
    /\ \E b \in Branches : polled[b] = "empty" /\ op[b] = "unbuilt"
    /\ \E b \in Branches : polled[b] = "pending" /\ polls[b] = 2

\* What a sweep returns and the slots it leaves, computed with the mask and
\* the flags of the rules expansion, and with any_pending of the proc one,
\* from the same order, the same slots and the same poll results.
ByMask(slots, rd) == PollFn("rules", 0, slots, FALSE, {}, rd)
ByAnyPending(slots, rd) == PollFn("proc", 0, slots, FALSE, {}, rd)

\* C36: the two implementations of the end-of-sweep decision agree.  After
\* every sweep of either implementation, the bitmask version and the
\* any_pending version, applied to the mode, the order, the slots the sweep
\* started with and the results its polls found, give the same result among
\* branch outcome, all-completed, would-block and still-pending and leave
\* the same slots empty; and that is what the sweep returned and left.
C36_DecisionsAgree ==
    JustSwept =>
        LET rd == SeenReadiness(UnreachedPending)
            m == ByMask(SlotsBefore, rd)
            a == ByAnyPending(SlotsBefore, rd)
        IN /\ m.out = a.out
           /\ m.slots = a.slots
           /\ panicked # "poll" =>
                 /\ m.out = output
                 /\ m.out.tag \in {"Branch", "Completed", "WouldBlock", "Pending"}
           /\ Branches \ a.slots = {b \in Branches : futures[b] = "None"}

C36_Witness ==
    /\ pc = "returned"
    /\ impl = "proc"
    /\ hasDefault /\ hasComplete
    /\ BRANCHES = 3
    /\ output = CompletedOut
    /\ ByMask(SlotsBefore, SeenReadiness(UnreachedPending)).out = CompletedOut
    /\ \E b \in Branches : polled[b] = "reject"
    /\ \E b \in Branches : polled[b] = "empty"

\* The two messages of the arms the expansion marks unreachable.
UnreachableMessages ==
    {"select! encounter mismatch branch in polling",
     "select! fail to pattern match"}

\* C37: the branch index computed in a sweep is always within 0..N-1, and a
\* reported branch outcome carries an index of a branch and a value that
\* matches that branch's binding pattern, so the dispatcher selects a branch
\* arm for it; neither of the two unreachable arms is ever executed.
C37_UnreachableArmsNeverRun ==
    /\ (pc = "sweep" /\ i < BRANCHES) => BranchAt(i) \in Branches
    /\ output.tag = "Branch" =>
          /\ output.idx \in Branches
          /\ Matches(output.val)
          /\ Arm(output).panic = "no"
          /\ Arm(output).run = <<BranchRun(output.idx, output.val)>>
    /\ pc = "dispatch" => Arm(output).panic \notin UnreachableMessages
    /\ panicked \notin UnreachableMessages

C37_Witness ==
    /\ pc = "done"
    /\ impl = "proc"
    /\ ~biased
    /\ BRANCHES = 2
    /\ start >= BRANCHES
    /\ i = 1
    /\ start + i >= BRANCHES + 1
    /\ output = BranchOut(BranchAt(1), 1)
    /\ handled = <<BranchRun(BranchAt(1), 1)>>

====
